---- MODULE Spec2Model ----
(***************************************************************************)
(* async-imgui-rs: a GUI loop (run_ui) and a background broker task        *)
(* (broker_loop) joined by two unbounded futures::channel::mpsc channels.  *)
(*                                                                         *)
(*   broker channel : run_ui --ToggleUiState{current_state}--> broker_loop *)
(*   ui channel     : broker_loop --ToggleUiStateFinished{new_state}-->    *)
(*                    run_ui                                               *)
(*                                                                         *)
(* The model follows src/src/main.rs statement by statement.  The window,  *)
(* the renderer and imgui are the environment: they contribute the two     *)
(* inputs of an iteration, "the window was asked to close" and "the        *)
(* Toggle button was clicked".                                             *)
(***************************************************************************)
EXTENDS Naturals, Sequences, FiniteSets

\* Bound of the model: how many times the Toggle button is clicked in a run.
MaxSubmits == 3

VARIABLES
    show_extra_label,  \* main.rs:72   window state of run_ui
    run,               \* main.rs:75   run state of run_ui
    fgpc,              \* position of run_ui
    brokerpc,          \* position of broker_loop
    event,             \* main.rs:29   the message broker_loop is working on
    requests,          \* queue of the broker channel (main.rs:47)
    responses,         \* queue of the ui channel (main.rs:48)
    broker_sender,     \* main.rs:47   TRUE while run_ui holds the sending end
    broker_receiver,   \* main.rs:47   TRUE while broker_loop holds the receiving end
    ui_sender,         \* main.rs:48   TRUE while broker_loop holds the sending end
    ui_receiver,       \* main.rs:48   TRUE while run_ui holds the receiving end
    stdout_ok,         \* environment: FALSE once writes to stdout fail
    \* history variables: written, never read by the program
    submitted,         \* requests run_ui has sent, in order
    dequeued,          \* messages broker_loop has taken, in order
    emitted,           \* responses broker_loop has sent, in order
    received,          \* messages run_ui has taken from the ui channel, in order
    applied,           \* values assigned to show_extra_label at main.rs:100, in order
    iter,              \* what the current iteration of run_ui saw when it began
    seen               \* for each request, how many responses had been applied
                       \* when run_ui submitted it

vars == <<show_extra_label, run, fgpc, brokerpc, event, requests, responses,
          broker_sender, broker_receiver, ui_sender, ui_receiver, stdout_ok,
          submitted, dequeued, emitted, received, applied, iter,
          seen>>

prog == <<show_extra_label, run, fgpc, brokerpc, event, requests, responses,
          broker_sender, broker_receiver, ui_sender, ui_receiver>>

hist == <<submitted, dequeued, emitted, received, applied, iter, seen>>

-----------------------------------------------------------------------------
\* enum UiEvent.  The field id is a history tag: the number of the click that
\* led to the message.  No guard and no program variable reads it.
ToggleUiState(b, n) == [type |-> "ToggleUiState", current_state |-> b, id |-> n]

ToggleUiStateFinished(b, n) == [type |-> "ToggleUiStateFinished", new_state |-> b, id |-> n]

NoEvent == [type |-> "none"]

\* The positions of run_ui inside its while loop.
FgLoop == {"poll_events", "poll_recv", "draw"}

\* The process is alive until main returns or the main thread panics.
ProcessAlive == fgpc \notin {"exited", "panicked"}

Init ==
    /\ show_extra_label = TRUE
    /\ run = TRUE
    /\ fgpc = "poll_events"
    /\ brokerpc = "waiting"
    /\ event = NoEvent
    /\ requests = <<>>
    /\ responses = <<>>
    /\ broker_sender = TRUE
    /\ broker_receiver = TRUE
    /\ ui_sender = TRUE
    /\ ui_receiver = TRUE
    /\ stdout_ok = TRUE
    /\ submitted = <<>>
    /\ dequeued = <<>>
    /\ emitted = <<>>
    /\ received = <<>>
    /\ applied = <<>>
    /\ iter = [responses |-> 0, emitted |-> 0, received |-> 0, submitted |-> 0]
    /\ seen = <<>>

-----------------------------------------------------------------------------
\* A panic on the main thread: unwinding drops run_ui's locals, the two
\* channel ends among them, and the process ends with the panic.
FgPanic ==
    /\ fgpc' = "panicked"
    /\ ui_receiver' = FALSE
    /\ responses' = <<>>
    /\ broker_sender' = FALSE

\* events_loop.poll_events: CloseRequested clears run; the rest of the
\* iteration still executes.
PollEvents ==
    /\ ProcessAlive
    /\ fgpc = "poll_events"
    /\ \E close \in BOOLEAN : run' = (run /\ ~close)
    /\ fgpc' = "poll_recv"
    /\ iter' = [responses |-> Len(responses), emitted |-> Len(emitted),
                received |-> Len(received), submitted |-> Len(submitted)]
    /\ UNCHANGED <<show_extra_label, brokerpc, event, requests, responses,
                   broker_sender, broker_receiver, ui_sender, ui_receiver,
                   stdout_ok, submitted, seen, dequeued, emitted, received, applied>>

\* A variant of PollRecv that takes every queued response in one iteration,
\* as a `while let Poll::Ready(Some(..))` would.
PollRecvDrainAll ==
    /\ ProcessAlive
    /\ fgpc = "poll_recv"
    /\ received' = received \o responses
    /\ responses' = <<>>
    /\ applied' = applied \o [i \in 1..Len(responses) |-> responses[i].new_state]
    /\ show_extra_label' = IF responses = <<>> THEN show_extra_label
                            ELSE responses[Len(responses)].new_state
    /\ fgpc' = "draw"
    /\ UNCHANGED <<run, brokerpc, event, requests, broker_sender,
                   broker_receiver, ui_sender, ui_receiver, stdout_ok,
                   submitted, seen, dequeued, emitted, iter>>

\* A variant of PollRecv that waits for a response, as
\* ui_receiver.next().await would.
PollRecvBlocking ==
    /\ ProcessAlive
    /\ fgpc = "poll_recv"
    /\ responses # <<>>
    /\ received' = Append(received, Head(responses))
    /\ responses' = Tail(responses)
    /\ show_extra_label' = Head(responses).new_state
    /\ applied' = Append(applied, Head(responses).new_state)
    /\ fgpc' = "draw"
    /\ UNCHANGED <<run, brokerpc, event, requests, broker_sender,
                   broker_receiver, ui_sender, ui_receiver, stdout_ok,
                   submitted, seen, dequeued, emitted, iter>>

\* A variant of PollRecv whose poll never reports a message: the status is
\* always taken to be Pending.
PollRecvNeverReady ==
    /\ ProcessAlive
    /\ fgpc = "poll_recv"
    /\ fgpc' = "draw"
    /\ UNCHANGED <<show_extra_label, run, brokerpc, event, requests,
                   responses, broker_sender, broker_receiver, ui_sender,
                   ui_receiver, stdout_ok, submitted, seen, dequeued, emitted,
                   received, applied, iter>>

\* futures::poll!(ui_receiver.next()) and the match on its status.
\*   queue not empty            -> Ready(Some(message))
\*   queue empty, sender held   -> Pending
\*   queue empty, sender gone   -> Ready(None), and message.unwrap() panics
PollRecv ==
    /\ ProcessAlive
    /\ fgpc = "poll_recv"
    /\ IF responses # <<>>
       THEN LET message == Head(responses) IN
            /\ received' = Append(received, message)
            /\ IF ~stdout_ok
               THEN \* println! at main.rs:97 panics when stdout cannot be written
                    /\ FgPanic
                    /\ UNCHANGED <<show_extra_label, applied>>
               ELSE /\ responses' = Tail(responses)
                    /\ fgpc' = "draw"
                    /\ IF message.type = "ToggleUiStateFinished"
                       THEN /\ show_extra_label' = message.new_state
                            /\ applied' = Append(applied, message.new_state)
                       ELSE UNCHANGED <<show_extra_label, applied>>
                    /\ UNCHANGED <<ui_receiver, broker_sender>>
       ELSE /\ IF ui_sender
               THEN /\ fgpc' = "draw"
                    /\ UNCHANGED <<responses, ui_receiver, broker_sender>>
               ELSE FgPanic
            /\ UNCHANGED <<show_extra_label, received, applied>>
    /\ UNCHANGED <<run, brokerpc, event, requests, broker_receiver, ui_sender,
                   stdout_ok, submitted, seen, dequeued, emitted, iter>>

\* A variant of Draw that flips show_extra_label at the click, without
\* waiting for the broker's answer.
DrawOptimistic ==
    /\ ProcessAlive
    /\ fgpc = "draw"
    /\ \E clicked \in BOOLEAN :
         /\ clicked => (Len(submitted) < MaxSubmits /\ broker_receiver)
         /\ IF clicked
            THEN /\ requests' = Append(requests,
                        ToggleUiState(show_extra_label, Len(submitted) + 1))
                 /\ submitted' = Append(submitted,
                        ToggleUiState(show_extra_label, Len(submitted) + 1))
                 /\ seen' = Append(seen, Len(applied))
                 /\ show_extra_label' = ~show_extra_label
            ELSE UNCHANGED <<requests, submitted, seen, show_extra_label>>
    /\ fgpc' = IF run THEN "poll_events" ELSE "drop_ui_receiver"
    /\ UNCHANGED <<run, brokerpc, event, responses, broker_sender,
                   broker_receiver, ui_sender, ui_receiver, stdout_ok,
                   dequeued, emitted, received, applied, iter>>

\* The frame: the Toggle button, the render, and the test of the while loop.
\* A click sends ToggleUiState{current_state: show_extra_label}; the send
\* fails when the receiving end is gone, and unwrap() panics on the failure.
Draw ==
    /\ ProcessAlive
    /\ fgpc = "draw"
    /\ \E clicked \in BOOLEAN :
         /\ clicked => Len(submitted) < MaxSubmits
         /\ IF clicked
            THEN IF broker_receiver
                 THEN /\ requests' = Append(requests,
                             ToggleUiState(show_extra_label, Len(submitted) + 1))
                      /\ submitted' = Append(submitted,
                             ToggleUiState(show_extra_label, Len(submitted) + 1))
                      /\ seen' = Append(seen, Len(applied))
                      /\ fgpc' = IF run THEN "poll_events" ELSE "drop_ui_receiver"
                      /\ UNCHANGED <<responses, ui_receiver, broker_sender>>
                 ELSE /\ FgPanic
                      /\ UNCHANGED <<requests, submitted, seen>>
            ELSE /\ fgpc' = IF run THEN "poll_events" ELSE "drop_ui_receiver"
                 /\ UNCHANGED <<requests, submitted, seen, responses, ui_receiver,
                                broker_sender>>
    /\ UNCHANGED <<show_extra_label, run, brokerpc, event, broker_receiver,
                   ui_sender, stdout_ok, dequeued, emitted, received, applied,
                   iter>>

\* End of run_ui: locals are dropped in reverse order of declaration, so
\* ui_receiver (main.rs:48) goes before broker_sender (main.rs:47).  Dropping
\* a receiver closes the channel and discards what is queued.
DropUiReceiver ==
    /\ ProcessAlive
    /\ fgpc = "drop_ui_receiver"
    /\ ui_receiver' = FALSE
    /\ responses' = <<>>
    /\ fgpc' = "drop_broker_sender"
    /\ UNCHANGED <<show_extra_label, run, brokerpc, event, requests,
                   broker_sender, broker_receiver, ui_sender, stdout_ok>>
    /\ UNCHANGED hist

DropBrokerSender ==
    /\ ProcessAlive
    /\ fgpc = "drop_broker_sender"
    /\ broker_sender' = FALSE
    /\ fgpc' = "returned"
    /\ UNCHANGED <<show_extra_label, run, brokerpc, event, requests, responses,
                   broker_receiver, ui_sender, ui_receiver, stdout_ok>>
    /\ UNCHANGED hist

\* task::block_on(run_ui()) returns and main returns: the process ends, and
\* the broker task, which nobody joins, ends with it wherever it is.
MainReturn ==
    /\ fgpc = "returned"
    /\ fgpc' = "exited"
    /\ UNCHANGED <<show_extra_label, run, brokerpc, event, requests, responses,
                   broker_sender, broker_receiver, ui_sender, ui_receiver,
                   stdout_ok>>
    /\ UNCHANGED hist

-----------------------------------------------------------------------------
\* A variant of BrokerEnds in which a panic inside the loop is swallowed and
\* the task reports a clean return.
BrokerEndsClean(how) ==
    /\ brokerpc' = "done"
    /\ event' = NoEvent
    /\ broker_receiver' = FALSE
    /\ requests' = <<>>
    /\ ui_sender' = FALSE

\* broker_loop ends, by return or by panic: its future is dropped, and with
\* it inbound_events (the queue is discarded) and outbound_events.
BrokerEnds(how) ==
    /\ brokerpc' = how
    /\ event' = NoEvent
    /\ broker_receiver' = FALSE
    /\ requests' = <<>>
    /\ ui_sender' = FALSE

\* A variant of BrokerRecv that takes the newest queued request first.
BrokerRecvNewest ==
    /\ ProcessAlive
    /\ brokerpc = "waiting"
    /\ requests # <<>>
    /\ dequeued' = Append(dequeued, requests[Len(requests)])
    /\ event' = requests[Len(requests)]
    /\ requests' = SubSeq(requests, 1, Len(requests) - 1)
    /\ brokerpc' = "sleeping"
    /\ UNCHANGED <<show_extra_label, run, fgpc, responses, broker_sender,
                   broker_receiver, ui_sender, ui_receiver, stdout_ok,
                   submitted, seen, emitted, received, applied, iter>>

\* A variant of BrokerRecv that takes the next request while the previous one
\* is still in its delay, as a broker spawning a task per request would.
BrokerRecvConcurrent ==
    /\ ProcessAlive
    /\ brokerpc \in {"waiting", "sleeping"}
    /\ requests # <<>>
    /\ dequeued' = Append(dequeued, Head(requests))
    /\ event' = Head(requests)
    /\ requests' = Tail(requests)
    /\ brokerpc' = "sleeping"
    /\ UNCHANGED <<show_extra_label, run, fgpc, responses, broker_sender,
                   broker_receiver, ui_sender, ui_receiver, stdout_ok,
                   submitted, seen, emitted, received, applied, iter>>

\* A variant of BrokerRecv whose match ends in `_ => unreachable!()`: any
\* message other than ToggleUiState panics the task.
BrokerRecvStrict ==
    /\ ProcessAlive
    /\ brokerpc = "waiting"
    /\ IF requests # <<>>
       THEN /\ dequeued' = Append(dequeued, Head(requests))
            /\ IF Head(requests).type = "ToggleUiState" /\ stdout_ok
               THEN /\ event' = Head(requests)
                    /\ requests' = Tail(requests)
                    /\ brokerpc' = "sleeping"
                    /\ UNCHANGED <<broker_receiver, ui_sender>>
               ELSE BrokerEnds("panicked")
       ELSE /\ ~broker_sender
            /\ BrokerEnds("done")
            /\ UNCHANGED dequeued
    /\ UNCHANGED <<show_extra_label, run, fgpc, responses, broker_sender,
                   ui_receiver, stdout_ok, submitted, seen, emitted, received,
                   applied, iter>>

\* A variant of BrokerRecv that returns as soon as it finds the queue empty,
\* as a loop over try_next() would.
BrokerRecvExitsOnEmpty ==
    /\ ProcessAlive
    /\ brokerpc = "waiting"
    /\ IF requests # <<>>
       THEN /\ dequeued' = Append(dequeued, Head(requests))
            /\ event' = Head(requests)
            /\ requests' = Tail(requests)
            /\ brokerpc' = "sleeping"
            /\ UNCHANGED <<broker_receiver, ui_sender>>
       ELSE /\ BrokerEnds("done")
            /\ UNCHANGED dequeued
    /\ UNCHANGED <<show_extra_label, run, fgpc, responses, broker_sender,
                   ui_receiver, stdout_ok, submitted, seen, emitted, received,
                   applied, iter>>

\* inbound_events.next().await and the match on the event.
\*   queue not empty           -> Some(event)
\*   queue empty, sender held  -> the task stays suspended
\*   queue empty, sender gone  -> None: the while let ends
BrokerRecv ==
    /\ ProcessAlive
    /\ brokerpc = "waiting"
    /\ IF requests # <<>>
       THEN /\ dequeued' = Append(dequeued, Head(requests))
            /\ IF Head(requests).type = "ToggleUiState"
               THEN IF stdout_ok
                    THEN /\ event' = Head(requests)
                         /\ requests' = Tail(requests)
                         /\ brokerpc' = "sleeping"
                         /\ UNCHANGED <<broker_receiver, ui_sender>>
                    ELSE \* println! at main.rs:33 panics
                         BrokerEnds("panicked")
               ELSE /\ requests' = Tail(requests)
                    /\ UNCHANGED <<brokerpc, event, broker_receiver, ui_sender>>
       ELSE /\ ~broker_sender
            /\ BrokerEnds("done")
            /\ UNCHANGED dequeued
    /\ UNCHANGED <<show_extra_label, run, fgpc, responses, broker_sender,
                   ui_receiver, stdout_ok, submitted, seen, emitted, received,
                   applied, iter>>

\* task::sleep(2 s) elapses; println!("Changing now!").
BrokerWake ==
    /\ ProcessAlive
    /\ brokerpc = "sleeping"
    /\ IF stdout_ok
       THEN /\ brokerpc' = "sending"
            /\ UNCHANGED <<event, requests, broker_receiver, ui_sender>>
       ELSE BrokerEnds("panicked")
    /\ UNCHANGED <<show_extra_label, run, fgpc, responses, broker_sender,
                   ui_receiver, stdout_ok>>
    /\ UNCHANGED hist

\* A variant of BrokerSend that puts the response at the head of the queue.
BrokerSendFront ==
    /\ ProcessAlive
    /\ brokerpc = "sending"
    /\ ui_receiver
    /\ responses' = <<ToggleUiStateFinished(~event.current_state, event.id)>>
                        \o responses
    /\ emitted' = Append(emitted,
            ToggleUiStateFinished(~event.current_state, event.id))
    /\ brokerpc' = "waiting"
    /\ event' = NoEvent
    /\ UNCHANGED <<show_extra_label, run, fgpc, requests, broker_sender,
                   broker_receiver, ui_sender, ui_receiver, stdout_ok,
                   submitted, seen, dequeued, received, applied, iter>>

\* A variant of BrokerSend that ignores a failed send (`let _ = ...`) and goes
\* on with the next request.
BrokerSendIgnoreError ==
    /\ ProcessAlive
    /\ brokerpc = "sending"
    /\ IF ui_receiver
       THEN /\ responses' = Append(responses,
                   ToggleUiStateFinished(~event.current_state, event.id))
            /\ emitted' = Append(emitted,
                   ToggleUiStateFinished(~event.current_state, event.id))
       ELSE UNCHANGED <<responses, emitted>>
    /\ brokerpc' = "waiting"
    /\ event' = NoEvent
    /\ UNCHANGED <<show_extra_label, run, fgpc, requests, broker_sender,
                   broker_receiver, ui_sender, ui_receiver, stdout_ok,
                   submitted, seen, dequeued, received, applied, iter>>

\* A variant of BrokerSend that sends current_state back without the `!`.
BrokerSendNoNegate ==
    /\ ProcessAlive
    /\ brokerpc = "sending"
    /\ ui_receiver
    /\ responses' = Append(responses,
            ToggleUiStateFinished(event.current_state, event.id))
    /\ emitted' = Append(emitted,
            ToggleUiStateFinished(event.current_state, event.id))
    /\ brokerpc' = "waiting"
    /\ event' = NoEvent
    /\ UNCHANGED <<show_extra_label, run, fgpc, requests, broker_sender,
                   broker_receiver, ui_sender, ui_receiver, stdout_ok,
                   submitted, seen, dequeued, received, applied, iter>>

\* A variant of BrokerSend that sends the response twice.
BrokerSendTwice ==
    /\ ProcessAlive
    /\ brokerpc = "sending"
    /\ ui_receiver
    /\ responses' = responses
            \o <<ToggleUiStateFinished(~event.current_state, event.id),
                 ToggleUiStateFinished(~event.current_state, event.id)>>
    /\ emitted' = emitted
            \o <<ToggleUiStateFinished(~event.current_state, event.id),
                 ToggleUiStateFinished(~event.current_state, event.id)>>
    /\ brokerpc' = "waiting"
    /\ event' = NoEvent
    /\ UNCHANGED <<show_extra_label, run, fgpc, requests, broker_sender,
                   broker_receiver, ui_sender, ui_receiver, stdout_ok,
                   submitted, seen, dequeued, received, applied, iter>>

\* A variant of BrokerSend that negates the window state it finds at the time
\* of the send instead of the snapshot in the request.
BrokerSendLive ==
    /\ ProcessAlive
    /\ brokerpc = "sending"
    /\ ui_receiver
    /\ responses' = Append(responses,
            ToggleUiStateFinished(~show_extra_label, event.id))
    /\ emitted' = Append(emitted,
            ToggleUiStateFinished(~show_extra_label, event.id))
    /\ brokerpc' = "waiting"
    /\ event' = NoEvent
    /\ UNCHANGED <<show_extra_label, run, fgpc, requests, broker_sender,
                   broker_receiver, ui_sender, ui_receiver, stdout_ok,
                   submitted, seen, dequeued, received, applied, iter>>

\* outbound_events.send(ToggleUiStateFinished{new_state: !current_state})
\*     .await.unwrap(): the send fails when ui_receiver is gone, and
\* unwrap() panics on the failure.
BrokerSend ==
    /\ ProcessAlive
    /\ brokerpc = "sending"
    /\ IF ui_receiver
       THEN /\ responses' = Append(responses,
                   ToggleUiStateFinished(~event.current_state, event.id))
            /\ emitted' = Append(emitted,
                   ToggleUiStateFinished(~event.current_state, event.id))
            /\ brokerpc' = "waiting"
            /\ event' = NoEvent
            /\ UNCHANGED <<requests, broker_receiver, ui_sender>>
       ELSE /\ BrokerEnds("panicked")
            /\ UNCHANGED <<responses, emitted>>
    /\ UNCHANGED <<show_extra_label, run, fgpc, broker_sender, ui_receiver,
                   stdout_ok, submitted, seen, dequeued, received, applied, iter>>

-----------------------------------------------------------------------------
\* Environment: stdout stops accepting writes (a closed pipe).
StdoutBreaks ==
    /\ ProcessAlive
    /\ stdout_ok
    /\ stdout_ok' = FALSE
    /\ UNCHANGED prog
    /\ UNCHANGED hist

FgNext ==
    \/ PollEvents
    \/ PollRecv
    \/ Draw
    \/ DropUiReceiver
    \/ DropBrokerSender
    \/ MainReturn

BrokerNext ==
    \/ BrokerRecv
    \/ BrokerWake
    \/ BrokerSend

Next == FgNext \/ BrokerNext

\* The program with a stdout that accepts every write.
Spec == Init /\ [][Next]_vars

\* The same, with the scheduling the code has: the main thread runs run_ui
\* without waiting for anybody, and the executor runs the broker task
\* whenever it can continue.
FairSpec == Spec /\ WF_vars(FgNext) /\ WF_vars(BrokerNext)

\* The program with a stdout that can fail.
FaultSpec == Init /\ [][Next \/ StdoutBreaks]_vars

\* Bound of the model: how many messages each channel holds at the start of
\* VariantSpec.
MaxPreQueued == 1

\* The values of enum UiEvent.  Both channels are channels of UiEvent, so
\* either variant can travel on either of them; the tag 0 marks a message
\* that no click led to.
UiEvents ==
    {ToggleUiState(b, 0) : b \in BOOLEAN}
        \cup {ToggleUiStateFinished(b, 0) : b \in BOOLEAN}

SeqsUpTo(S, n) == UNION {[1..k -> S] : k \in 0..n}

\* run_ui and broker_loop started on channels that already hold messages of
\* either variant.  The program itself sends only ToggleUiState on the broker
\* channel and only ToggleUiStateFinished on the ui channel; this start is
\* what exercises the `_ => ()` arms of the two match statements.
InitAnyVariant ==
    /\ show_extra_label = TRUE
    /\ run = TRUE
    /\ fgpc = "poll_events"
    /\ brokerpc = "waiting"
    /\ event = NoEvent
    /\ requests \in SeqsUpTo(UiEvents, MaxPreQueued)
    /\ responses \in SeqsUpTo(UiEvents, MaxPreQueued)
    /\ broker_sender = TRUE
    /\ broker_receiver = TRUE
    /\ ui_sender = TRUE
    /\ ui_receiver = TRUE
    /\ stdout_ok = TRUE
    /\ submitted = <<>>
    /\ dequeued = <<>>
    /\ emitted = <<>>
    /\ received = <<>>
    /\ applied = <<>>
    /\ iter = [responses |-> 0, emitted |-> 0, received |-> 0, submitted |-> 0]
    /\ seen = <<>>

VariantSpec == InitAnyVariant /\ [][Next]_vars

-----------------------------------------------------------------------------
\* Helpers of the properties.
IsPrefix(s, t) == Len(s) <= Len(t) /\ \A i \in 1..Len(s) : s[i] = t[i]

\* Everything that went through the ui channel, in channel order, as long as
\* run_ui holds the receiver: what run_ui took, then what is still queued.
UiChannelHistory == received \o responses

BrokerEnded == brokerpc \in {"done", "panicked"}

-----------------------------------------------------------------------------
\* C1: the i-th response put on the ui channel is the one produced for the
\* i-th request the broker took from the broker channel, in every
\* interleaving of run_ui and broker_loop.
C1_ResponsesInRequestOrder ==
    /\ \A i \in 1..Len(emitted) :
         i <= Len(dequeued) /\ emitted[i].id = dequeued[i].id
    /\ \A i \in 1..Len(UiChannelHistory) :
         i <= Len(dequeued) /\ UiChannelHistory[i].id = dequeued[i].id

\* Two responses are queued together, produced for the first two requests.
C1_Witness ==
    /\ Len(responses) >= 2
    /\ Len(dequeued) >= 2
    /\ responses[1].id = dequeued[1].id
    /\ responses[2].id = dequeued[2].id

\* C2 as stated: every submitted request is eventually dequeued.  In the form
\* a finite run decides: once the broker or the process has ended, nothing
\* that was submitted is left undelivered.
C2_Original ==
    (BrokerEnded \/ ~ProcessAlive) => Len(dequeued) = Len(submitted)

\* C2 as amended: a click while the broker channel is open puts the request
\* on the channel; the broker takes requests at most once each and in the
\* order of submission; and every submitted request is eventually taken,
\* unless run_ui leaves its loop first.
C2_Delivery ==
    /\ [](IsPrefix(dequeued, submitted))
    /\ [](broker_receiver => dequeued \o requests = submitted)
    /\ [](fgpc # "panicked")
    /\ \A i \in 1..MaxSubmits :
         (Len(submitted) >= i) ~> (Len(dequeued) >= i \/ fgpc \notin FgLoop)

\* Three requests were submitted while the loop runs; the broker has taken
\* the first two and the third waits in the broker channel.
C2_Witness ==
    /\ Len(submitted) = 3
    /\ Len(dequeued) = 2
    /\ Len(requests) = 1
    /\ fgpc \in FgLoop

\* C3: one iteration of run_ui takes at most one response from the ui
\* channel.  With k >= 1 responses queued when the iteration began, k-1 of
\* them plus those the broker has sent since are queued after its drain-one
\* step; before that step all k are.
C3_DrainAtMostOne ==
    /\ fgpc = "poll_recv" =>
         /\ Len(received) = iter.received
         /\ Len(responses) + iter.emitted = iter.responses + Len(emitted)
    /\ fgpc \in {"draw", "poll_events", "drop_ui_receiver"} =>
         /\ Len(received) <= iter.received + 1
         /\ iter.responses >= 1 =>
              /\ Len(received) = iter.received + 1
              /\ Len(responses) + 1 + iter.emitted
                   = iter.responses + Len(emitted)
         /\ iter.responses = 0 =>
              Len(responses) + Len(received) + iter.emitted
                   = iter.received + Len(emitted)

\* An iteration began with two responses queued and has passed drain-one.
C3_Witness ==
    /\ fgpc = "draw"
    /\ iter.responses >= 2
    /\ Len(responses) >= 1

\* C4 as stated: when the broker has ended after the request-sender was
\* dropped, every submitted request has been taken and has had its response
\* sent.
C4_Original ==
    (~broker_sender /\ BrokerEnded) =>
        /\ Len(dequeued) = Len(submitted)
        /\ Len(emitted) = Len(dequeued)

\* C4 as amended: run_ui drops the response-receiver before the
\* request-sender, so after the request-sender is dropped no response is sent
\* any more.  The broker then ends, or the process does: by return if it finds
\* the queue empty, having answered every request it took, and by the failed
\* send of the request it is working on otherwise, the requests queued behind
\* that one being discarded.  Once ended it takes nothing and sends nothing.
C4_Shutdown ==
    /\ [](~broker_sender => ~ui_receiver)
    /\ [][~broker_sender => emitted' = emitted]_vars
    /\ [](brokerpc = "done" =>
            ~broker_sender /\ Len(emitted) = Len(dequeued))
    /\ [](brokerpc = "panicked" =>
            ~ui_receiver /\ Len(emitted) + 1 = Len(dequeued))
    /\ [][BrokerEnded =>
            /\ brokerpc' = brokerpc
            /\ emitted' = emitted
            /\ dequeued' = dequeued]_vars
    /\ (~broker_sender) ~> (BrokerEnded \/ ~ProcessAlive)

\* The broker ended on a failed send with a request still queued behind the
\* one it was working on.
C4_Witness ==
    /\ ~broker_sender
    /\ brokerpc = "panicked"
    /\ Len(submitted) > Len(dequeued)

\* C5: a click after the broker has ended gives an error value and run_ui
\* goes on: the step leaves run_ui in its loop, or on its way out because the
\* window was closed, with show_extra_label as it was.
C5_SubmitFailureIsNotFatal ==
    [][(fgpc = "draw" /\ ~broker_receiver) =>
          /\ fgpc' \in {"draw", "poll_events", "drop_ui_receiver"}
          /\ show_extra_label' = show_extra_label]_vars
\* C6: for toggle requests submitted with snapshots b1..bn the broker sends
\* ToggleUiStateFinished responses, the i-th with new_state = ~bi; the i-th
\* drain-one that applies a response sets show_extra_label to ~bi; and when
\* the broker has nothing left to do it has sent exactly n responses, all of
\* them applied once the ui channel is empty.
C6_ToggleValues ==
    /\ Len(emitted) <= Len(submitted)
    /\ \A i \in 1..Len(emitted) :
         /\ emitted[i].type = "ToggleUiStateFinished"
         /\ emitted[i].new_state = ~submitted[i].current_state
    /\ Len(applied) <= Len(emitted)
    /\ \A i \in 1..Len(applied) : applied[i] = ~submitted[i].current_state
    /\ applied # <<>> => show_extra_label = applied[Len(applied)]
    /\ (broker_receiver /\ brokerpc = "waiting" /\ requests = <<>>) =>
         Len(emitted) = Len(submitted)
    /\ (broker_receiver /\ brokerpc = "waiting" /\ requests = <<>>
          /\ ui_receiver /\ responses = <<>>) =>
         Len(applied) = Len(submitted)

\* The scenario of two requests with snapshots true then false: the
\* responses false then true have been applied in that order.
C6_Witness ==
    /\ Len(submitted) = 2
    /\ submitted[1].current_state = TRUE
    /\ submitted[2].current_state = FALSE
    /\ applied = <<FALSE, TRUE>>
    /\ show_extra_label = TRUE

\* A step of run_ui's loop that ends in the loop or on the way out of it.
FgStepInLoop ==
    /\ PollEvents \/ PollRecv \/ Draw
    /\ fgpc' \in FgLoop \cup {"drop_ui_receiver"}

\* C7: run_ui is never blocked by the broker: wherever it is in its loop, its
\* next step can be taken at once, whatever the broker is doing and whether
\* or not a response is queued, so a whole iteration can always be completed.
C7_ForegroundNeverBlocked ==
    fgpc \in FgLoop => ENABLED FgStepInLoop

\* run_ui is at drain-one with nothing to take, the broker in its delay and
\* another request queued behind the one in flight.
C7_Witness ==
    /\ fgpc = "poll_recv"
    /\ responses = <<>>
    /\ brokerpc = "sleeping"
    /\ requests # <<>>

\* C8: at most one request is in flight in the broker: it has taken at most
\* one request more than it has answered, it holds a request exactly between
\* taking it and sending its response, and while it holds one the queued
\* requests stay in the broker channel.
C8_OneInFlight ==
    /\ [](Len(dequeued) <= Len(emitted) + 1)
    /\ [](brokerpc = "waiting" =>
            event = NoEvent /\ Len(dequeued) = Len(emitted))
    /\ [](brokerpc \in {"sleeping", "sending"} =>
            /\ Len(dequeued) = Len(emitted) + 1
            /\ event = dequeued[Len(dequeued)])
    /\ [][(brokerpc \in {"sleeping", "sending"} /\ ~BrokerEnded') =>
            /\ dequeued' = dequeued
            /\ IsPrefix(requests, requests')]_vars

\* One request is in its delay and two more wait in the broker channel.
C8_Witness ==
    /\ brokerpc = "sleeping"
    /\ Len(requests) = 2
    /\ Len(dequeued) = 1

\* C9: show_extra_label changes only in the drain-one step of run_ui, to the
\* new_state of the ToggleUiStateFinished response that step takes; no step
\* of the broker and no other step of run_ui changes it.
C9_StateChangesOnlyInDrainOne ==
    [][show_extra_label' # show_extra_label =>
          /\ fgpc = "poll_recv"
          /\ fgpc' = "draw"
          /\ responses # <<>>
          /\ Head(responses).type = "ToggleUiStateFinished"
          /\ show_extra_label' = Head(responses).new_state
          /\ responses' = Tail(responses)
          /\ UNCHANGED <<brokerpc, event, requests, submitted>>]_vars

\* A response has been applied and has changed show_extra_label, with
\* requests submitted and broker steps taken since.
C9_Witness ==
    /\ applied = <<FALSE>>
    /\ show_extra_label = FALSE
    /\ Len(submitted) >= 2
    /\ brokerpc = "sending"

C11_NoResponseWithoutRequest ==
    /\ Len(emitted) <= Len(dequeued)
    /\ Len(dequeued) <= Len(submitted)
    /\ \A i \in 1..Len(emitted) :
         \E j \in 1..Len(dequeued) : dequeued[j].id = emitted[i].id
    /\ \A i, j \in 1..Len(emitted) :
         emitted[i].id = emitted[j].id => i = j
    /\ Len(received) + Len(responses) <= Len(emitted)

\* Every submitted request has been taken and answered, and not all answers
\* have been taken by run_ui yet.
C11_Witness ==
    /\ Len(submitted) = MaxSubmits
    /\ Len(emitted) = MaxSubmits
    /\ Len(responses) >= 1

\* C12: the drain-one step has three outcomes and none of them stops run_ui:
\* with a response queued it applies the response's payload; with the ui
\* channel empty and open it changes nothing; with the ui channel closed
\* (sender gone, queue drained) it leaves show_extra_label as it was and the
\* loop goes on.
C12_DrainOneNeverStopsLoop ==
    [][(fgpc = "poll_recv" /\ fgpc' # fgpc) =>
          /\ (responses # <<>> /\ stdout_ok) =>
                /\ fgpc' = "draw"
                /\ responses' = Tail(responses)
                /\ Head(responses).type = "ToggleUiStateFinished" =>
                     show_extra_label' = Head(responses).new_state
          /\ (responses = <<>> /\ ui_sender) =>
                /\ fgpc' = "draw"
                /\ UNCHANGED <<show_extra_label, responses>>
          /\ (responses = <<>> /\ ~ui_sender) =>
                /\ fgpc' = "draw"
                /\ UNCHANGED show_extra_label]_vars

\* Both channel ends of run_ui are dropped and the broker still has work: a
\* request in flight, or requests queued.
PendingAtDrop ==
    /\ ~ui_receiver
    /\ ~broker_sender
    /\ broker_receiver
    /\ brokerpc \in {"sleeping", "sending"} \/ requests # <<>>

\* C13 as stated: after run_ui has dropped both its channel ends the broker
\* ends cleanly, by observing the closure of the broker channel, also when a
\* request was in flight or queued.
C13_Original ==
    (~ui_receiver /\ ~broker_sender /\ BrokerEnded) => brokerpc = "done"

\* C13 as amended: after run_ui has left its loop the broker ends or the
\* process does.  The broker ends cleanly only by finding the broker channel
\* closed and empty with no request in flight: when it is idle with an empty
\* queue after the drop, its next step is the clean return.  When a request
\* is in flight or queued at the drop it never ends cleanly: it ends by the
\* panic of its failed send, unless the process exits first.
C13_Termination ==
    /\ [](brokerpc = "done" =>
            ~broker_sender /\ ~ui_receiver /\ Len(emitted) = Len(dequeued))
    /\ [][(~broker_sender /\ brokerpc = "waiting" /\ requests = <<>>
             /\ brokerpc' # brokerpc) => brokerpc' = "done"]_vars
    /\ [](PendingAtDrop => [](brokerpc # "done"))
    /\ (fgpc \notin FgLoop) ~> (BrokerEnded \/ ~ProcessAlive)

\* run_ui has returned; the broker answered the first request, had the
\* second in flight when the ends were dropped, and ended on the failed send.
C13_Witness ==
    /\ fgpc = "returned"
    /\ brokerpc = "panicked"
    /\ Len(emitted) = 1
    /\ Len(dequeued) = 2

\* C14: an unexpected variant is a no-op on both sides.  A broker that takes
\* a ToggleUiStateFinished sends nothing, keeps its channel ends and waits
\* for the next request; a drain-one that takes a ToggleUiState consumes it,
\* leaves show_extra_label as it was and goes on with the frame.
C14_UnexpectedVariantIsNoOp ==
    [][/\ (brokerpc = "waiting" /\ requests # <<>>
             /\ Head(requests).type # "ToggleUiState"
             /\ dequeued' # dequeued) =>
            /\ brokerpc' = "waiting"
            /\ requests' = Tail(requests)
            /\ UNCHANGED <<responses, emitted, event>>
            /\ broker_receiver' /\ ui_sender'
       /\ (fgpc = "poll_recv" /\ responses # <<>>
             /\ Head(responses).type # "ToggleUiStateFinished"
             /\ fgpc' # fgpc) =>
            /\ fgpc' = "draw"
            /\ responses' = Tail(responses)
            /\ received' = Append(received, Head(responses))
            /\ UNCHANGED <<show_extra_label, applied, requests>>]_vars

\* The broker took a ToggleUiStateFinished and afterwards took and answered
\* a request; run_ui took a ToggleUiState and afterwards applied a response.
C14_Witness ==
    /\ Len(dequeued) = 2
    /\ dequeued[1].type = "ToggleUiStateFinished"
    /\ dequeued[2].type = "ToggleUiState"
    /\ Len(emitted) = 1
    /\ Len(received) = 2
    /\ received[1].type = "ToggleUiState"
    /\ Len(applied) = 1
    /\ fgpc \in FgLoop

\* C15: in an iteration of run_ui drain-one runs before the submit, and the
\* request carries show_extra_label as it is at the click: when the
\* iteration applied a response first, the snapshot is that response's
\* new_state.  The broker computes new_state from the snapshot in the
\* request it holds, whatever show_extra_label is at that time.
C15_SnapshotAtSubmission ==
    /\ [][(fgpc' = "draw" /\ fgpc # "draw") => fgpc = "poll_recv"]_vars
    /\ [][Len(submitted') > Len(submitted) =>
            /\ fgpc = "draw"
            /\ Len(submitted') = Len(submitted) + 1
            /\ submitted'[Len(submitted')].current_state = show_extra_label
            /\ requests' = Append(requests, submitted'[Len(submitted')])]_vars
    /\ []((fgpc \in {"poll_events", "drop_ui_receiver"}
             /\ Len(received) = iter.received + 1
             /\ Len(submitted) = iter.submitted + 1) =>
            submitted[Len(submitted)].current_state
                = received[Len(received)].new_state)
    /\ [][Len(emitted') > Len(emitted) =>
            /\ event = dequeued[Len(dequeued)]
            /\ emitted'[Len(emitted')].new_state = ~event.current_state]_vars

\* An iteration applied the response false to the first request and then
\* submitted the second request, whose snapshot is false; the broker has
\* answered only the first.
C15_Witness ==
    /\ fgpc = "poll_events"
    /\ Len(received) = iter.received + 1
    /\ Len(submitted) = iter.submitted + 1
    /\ Len(submitted) = 2
    /\ submitted[2].current_state = FALSE
    /\ applied = <<FALSE>>
    /\ Len(emitted) = 1

\* C16: requests submitted with no response applied in between carry the
\* same snapshot.  When the requests i..j were all submitted while
\* show_extra_label was s and before the response to any of them was
\* applied, every response to them carries ~s, every one of them sets
\* show_extra_label to ~s, and after the last of them is applied
\* show_extra_label is ~s: the state is toggled once, not j-i+1 times.
C16_ToggledOnce ==
    \A i, j \in 1..Len(submitted) :
      i < j =>
        /\ seen[i] = seen[j] =>
             submitted[i].current_state = submitted[j].current_state
        /\ (/\ seen[j] < i
            /\ \A m \in i..j :
                 submitted[m].current_state = submitted[i].current_state) =>
             /\ \A m \in i..j :
                  /\ m <= Len(emitted) =>
                       emitted[m].new_state = ~submitted[i].current_state
                  /\ m <= Len(applied) =>
                       applied[m] = ~submitted[i].current_state
             /\ Len(applied) = j =>
                  show_extra_label = ~submitted[i].current_state

\* Two requests were submitted while show_extra_label was true and before
\* any response was applied; both responses have been applied and
\* show_extra_label is false.
C16_Witness ==
    /\ seen = <<0, 0>>
    /\ submitted[1].current_state = TRUE
    /\ submitted[2].current_state = TRUE
    /\ applied = <<FALSE, FALSE>>
    /\ show_extra_label = FALSE

Quiet ==
    /\ requests = <<>>
    /\ responses = <<>>
    /\ brokerpc = "waiting"
    /\ Len(applied) = Len(submitted)

\* C18: with run_ui iterating and the broker scheduled fairly, every
\* submitted request eventually has its response applied, as long as run_ui
\* stays in its loop; and once the submissions have stopped, both channels
\* become empty and the broker is back waiting for a request, and it stays
\* so while run_ui stays in its loop.
C18_EventuallyApplied ==
    /\ \A i \in 1..MaxSubmits :
         (Len(submitted) >= i) ~>
             \/ /\ Len(applied) >= i
                /\ applied[i] = ~submitted[i].current_state
             \/ fgpc \notin FgLoop
    /\ <>[](Quiet \/ fgpc \notin FgLoop)

\* Every submitted request has had its response applied, the channels are
\* empty, the broker waits, and the loop goes on.
C18_Witness ==
    /\ Quiet
    /\ Len(submitted) = MaxSubmits
    /\ fgpc = "poll_recv"
    /\ run

====
